---- MODULE Spec2Model ----
(***************************************************************************)
(* Bidirectional Google-Sheets <-> MySQL synchronisation (Data-Sync).      *)
(*                                                                         *)
(* State: the worksheet grid, the MySQL table, the sync_state.json file,   *)
(* the wall clock and the value the last entry point returned.  One action *)
(* per entry point; an action is one whole pass, the point at which an    *)
(* external call raises being an input of the action.                      *)
(***************************************************************************)
EXTENDS Integers, Sequences, FiniteSets, TLC

VARIABLES sheet, db, sync_state, now, result, echo, labeler, inflight

vars == <<sheet, db, sync_state, now, result, echo, labeler, inflight>>

\* the variables of a running get_column_letter and of running
\* save_sync_state calls
calls == <<labeler, inflight>>

(* ------------------------------ bounds --------------------------------- *)
\* the worksheets of the data specification: up to MaxRows x MaxCols
MaxRows == 2
MaxCols == 2
\* the worksheets of the timing and failure specifications
SmallRows == 1
SmallCols == 1
\* the clock stops at MaxTime
MaxTime == 6
\* column numbers handed to get_column_letter: -NegIndex .. MaxIndex
MaxIndex == 703
NegIndex == 1

(* ------------------------- program constants --------------------------- *)
GuardWindow == 5

TableNames == {"Sync7"}
OtherTable == "Other"

(* ------------------------------ values --------------------------------- *)
\* A table cell: SQL NULL, or a TEXT value.
Null == <<>>
Text(s) == <<s>>
\* Python None where a dict entry is absent (dict.get default).
None == <<"None">>
\* The empty string handed to save_sync_state as db_hash.
EmptyStr == <<>>

Range(s) == {s[i] : i \in DOMAIN s}

\* The worksheets a user can leave behind: the master sheet, whose cells
\* alternate between a text and the empty string, cut to any number of
\* rows and each row cut to any length (ragged rows, rows of no cell).
Master(i, j) == IF (i + j) % 2 = 0 THEN "x" ELSE ""
RowCut(i, k) == [j \in 1..k |-> Master(i, j)]
GridsOf(rows, cols) ==
    UNION {{[i \in 1..n |-> RowCut(i, len[i])] : len \in [1..n -> 0..cols]} :
           n \in 0..rows}
Grids == GridsOf(MaxRows, MaxCols)
SmallGrids == GridsOf(SmallRows, SmallCols)

(* ------------------------- sync_utils.py ------------------------------- *)
Letters == <<"A","B","C","D","E","F","G","H","I","J","K","L","M",
             "N","O","P","Q","R","S","T","U","V","W","X","Y","Z">>

\* (variant: divmod(n, 26), a zero digit)
get_column_letter_step_ZeroDigit(n, res) ==
    [n |-> n \div 26, result |-> Letters[(n % 26) + 1] \o res]

\* One turn of the while loop of sync_utils.get_column_letter:
\* n, remainder = divmod(n - 1, 26); result = chr(65 + remainder) + result
get_column_letter_step(n, res) ==
    [n |-> (n - 1) \div 26, result |-> Letters[((n - 1) % 26) + 1] \o res]

\* while n > 0: ...; return result
RECURSIVE get_column_letter_loop(_, _)
get_column_letter_loop(n, res) ==
    IF n > 0
    THEN LET s == get_column_letter_step(n, res)
         IN  get_column_letter_loop(s.n, s.result)
    ELSE res

get_column_letter(n) == get_column_letter_loop(n, "")

\* One turn of the while loop of the copy in main.py.
main_get_column_letter_step(n, res) ==
    [n |-> (n - 1) \div 26, result |-> Letters[((n - 1) % 26) + 1] \o res]

\* The copy in main.py, start to return.
RECURSIVE main_get_column_letter_loop(_, _)
main_get_column_letter_loop(n, res) ==
    IF n > 0
    THEN LET s == main_get_column_letter_step(n, res)
         IN  main_get_column_letter_loop(s.n, s.result)
    ELSE res

main_get_column_letter(n) == main_get_column_letter_loop(n, "")

\* hashlib.md5(json.dumps(data)).hexdigest(): json.dumps is injective on
\* lists of lists of strings and the digest never is the empty string.
get_data_hash(data) == <<"md5", data>>

\* load_sync_state(): the mapping stored in the file ({} when absent).
load_sync_state == sync_state

\* the dict built from the arguments of save_sync_state
StateRecord(db_hash, sheet_hash, timestamp, direction) ==
    [db_hash |-> db_hash, sheet_hash |-> sheet_hash,
     last_sync |-> timestamp, direction |-> direction]

\* state[table_name] = record; json.dump(state, f): the file becomes the
\* mapping that was loaded, with the key of the table replaced.
Dumped(state, table_name, record) ==
    [t \in (DOMAIN state) \cup {table_name} |->
        IF t = table_name THEN record ELSE state[t]]

\* save_sync_state run without another save in between: load, set, dump.
save_sync_state(table_name, db_hash, sheet_hash, timestamp, direction) ==
    Dumped(load_sync_state, table_name,
           StateRecord(db_hash, sheet_hash, timestamp, direction))

\* sync_state.get(table_name, {}) followed by .get(field, default)
LastField(state, table_name, field, default) ==
    IF table_name \in DOMAIN state THEN state[table_name][field] ELSE default

(* ------------------- mysql_sync.py: _sync_to_mysql_raw ----------------- *)
\* The points at which an external call of a pass can raise.
RawFails == {"has_table", "create_table", "strip", "get_columns",
             "add_column", "delete", "upsert"}

NoTable == [exists |-> FALSE, auto_inc |-> FALSE, cols |-> <<>>, rows |-> <<>>]

\* CREATE TABLE `t` (`id` INT PRIMARY KEY)
CreateTable == [exists |-> TRUE, auto_inc |-> FALSE, cols |-> <<"id">>,
                rows |-> <<>>]

\* ALTER TABLE `t` MODIFY COLUMN `id` INT NOT NULL, run when the create
\* statement mentions AUTO_INCREMENT; a failure is printed and swallowed.
StripAutoIncrement(d, fail) ==
    IF fail = "strip" THEN d
    ELSE IF d.auto_inc THEN [d EXCEPT !.auto_inc = FALSE] ELSE d

\* (variant: no try/except around the step)
StripRaises_Propagates(fail) == fail = "strip"

\* except Exception as e: print("Could not modify id column"): whether a
\* failure of the step leaves _sync_to_mysql_raw as an exception.
StripRaises(fail) == FALSE

\* ALTER TABLE `t` ADD COLUMN `col` TEXT: existing rows read NULL in it.
AddColumn(d, col) ==
    [d EXCEPT !.cols = Append(d.cols, col),
              !.rows = [id \in DOMAIN d.rows |->
                          [c \in (DOMAIN d.rows[id]) \cup {col} |->
                              IF c \in DOMAIN d.rows[id] THEN d.rows[id][c]
                              ELSE Null]]]

\* (variant: every column of the grid taken for missing)
Missing_Always(col, existing_cols) == TRUE

\* if col not in existing_cols
Missing(col, existing_cols) == col \notin Range(existing_cols)

\* for col in col_names: if col not in existing_cols: ALTER ... ADD COLUMN.
\* failAt is the ordinal of the ALTER statement that raises (0: none);
\* DDL commits implicitly, so the columns added before it stay.
RECURSIVE AddMissingColumns(_, _, _, _, _, _)
AddMissingColumns(d, col_names, existing_cols, i, done, failAt) ==
    IF i > Len(col_names) THEN [db |-> d, raised |-> FALSE, wrote |-> done > 0]
    ELSE IF Missing(col_names[i], existing_cols)
         THEN IF done + 1 = failAt
              THEN [db |-> d, raised |-> TRUE, wrote |-> done > 0]
              ELSE AddMissingColumns(AddColumn(d, col_names[i]), col_names,
                                     existing_cols, i + 1, done + 1, failAt)
         ELSE AddMissingColumns(d, col_names, existing_cols, i + 1, done,
                                failAt)

\* (variant: the threshold one too high)
DeleteRowsAbove_OffByOne(d, max_id) ==
    [d EXCEPT !.rows = [id \in {j \in DOMAIN d.rows : ~(j > max_id + 1)} |->
                           d.rows[id]]]

\* DELETE FROM `t` WHERE `id` > :max_id
DeleteRowsAbove(d, max_id) ==
    [d EXCEPT !.rows = [id \in {j \in DOMAIN d.rows : ~(j > max_id)} |->
                           d.rows[id]]]

\* padded_row = row + [""] * (len(col_names) - len(row))
PadRow(row, n) == row \o [j \in 1..(n - Len(row)) |-> ""]

\* value = padded_row[i] if padded_row[i] else None
CellParam(cell) == IF cell # "" THEN Text(cell) ELSE Null

\* params: the value bound to each name of col_names
RowParams(col_names, row) ==
    LET padded_row == PadRow(row, Len(col_names))
    IN  [c \in Range(col_names) |->
            LET i == CHOOSE j \in DOMAIN col_names : col_names[j] = c
            IN  CellParam(padded_row[i])]

\* INSERT INTO `t` (id, cols) VALUES (...) ON DUPLICATE KEY UPDATE
\* c = VALUES(c) for c in col_names: a new row takes NULL in the columns
\* the statement does not name, an existing row keeps what it had there.
UpsertRow(d, row_id, col_names, row) ==
    LET params == RowParams(col_names, row)
        letter_cols == Range(d.cols) \ {"id"}
        new_row == [c \in letter_cols |->
                       IF c \in DOMAIN params THEN params[c]
                       ELSE IF row_id \in DOMAIN d.rows THEN d.rows[row_id][c]
                       ELSE Null]
    IN  [d EXCEPT !.rows = [id \in (DOMAIN d.rows) \cup {row_id} |->
                               IF id = row_id THEN new_row ELSE d.rows[id]]]

\* for idx, row in enumerate(all_values): upsert with row_id = idx + 1
RECURSIVE UpsertRows(_, _, _, _)
UpsertRows(d, col_names, all_values, idx) ==
    IF idx >= Len(all_values) THEN d
    ELSE UpsertRows(UpsertRow(d, idx + 1, col_names, all_values[idx + 1]),
                    col_names, all_values, idx + 1)

\* The upsert transaction: with no column to update the statement ends in
\* "ON DUPLICATE KEY UPDATE" and MySQL rejects it; a failure rolls the
\* whole transaction back (the DELETE before it is already committed).
UpsertAll(d, col_names, all_values, fail) ==
    IF fail = "upsert" \/ (Len(all_values) > 0 /\ Len(col_names) = 0)
    THEN [db |-> d, raised |-> TRUE, wrote |-> TRUE]
    ELSE [db |-> UpsertRows(d, col_names, all_values, 0), raised |-> FALSE,
          wrote |-> TRUE]

\* _sync_to_mysql_raw(table_name, col_names, all_values): the table after
\* the call, whether the call raised, whether a statement that writes
\* (CREATE, ALTER, DELETE, INSERT) was committed, and whether the warning
\* of the id step was printed.
sync_to_mysql_raw(d, col_names, all_values, fail, failAt) ==
    IF fail = "has_table" \/ (~d.exists /\ fail = "create_table")
    THEN [db |-> d, raised |-> TRUE, wrote |-> FALSE, warned |-> FALSE]
    ELSE
    LET d1 == IF d.exists THEN d ELSE CreateTable
        d2 == StripAutoIncrement(d1, fail)
        w2 == d2 # d
        warned == fail = "strip"
    IN  IF StripRaises(fail) \/ fail = "get_columns"
        THEN [db |-> d2, raised |-> TRUE, wrote |-> w2, warned |-> warned]
        ELSE
        LET added == AddMissingColumns(d2, col_names, d2.cols, 1, 0,
                                       IF fail = "add_column" THEN failAt
                                       ELSE 0)
        IN  IF added.raised \/ fail = "delete"
            THEN [db |-> added.db, raised |-> TRUE,
                  wrote |-> w2 \/ added.wrote, warned |-> warned]
            ELSE LET u == UpsertAll(DeleteRowsAbove(added.db,
                                                    Len(all_values)),
                                    col_names, all_values, fail)
                 IN  [db |-> u.db, raised |-> u.raised, wrote |-> u.wrote,
                      warned |-> warned]

\* max_cols = max(len(row) for row in all_values)
MaxLen(all_values) ==
    IF Len(all_values) = 0 THEN 0
    ELSE CHOOSE m \in {Len(all_values[i]) : i \in DOMAIN all_values} :
            \A i \in DOMAIN all_values : Len(all_values[i]) <= m

\* (variant: get_column_letter(i) for i in range(max_cols))
ColNames_ZeroBased(max_cols) ==
    [i \in 1..max_cols |-> get_column_letter(i - 1)]

\* col_names = [get_column_letter(i + 1) for i in range(max_cols)]
ColNames(max_cols) == [i \in 1..max_cols |-> get_column_letter(i)]

(* ---------------------- the worksheet (gspread) ------------------------ *)
\* worksheet.get_all_values()
get_all_values == sheet
\* worksheet.clear()
Cleared == <<>>
\* worksheet.update("A1:<col><rows>", sheet_data)
Updated(sheet_data) == sheet_data

(* -------------------- the value an entry point hands back -------------- *)
\* the printed lines of a sheet_to_table pass: the warning of the id step,
\* when printed, before the line of the outcome
S2TLog(warned, line) == IF warned THEN "id_warning+" \o line ELSE line

\* status: the "status" of the returned dict, "None" for a bare return,
\* "raised" when the exception leaves the function; detail: the other key
\* of the dict; log: the branch taken (its printed line); wrote: the
\* destinations the pass wrote to.  The variable result holds the value
\* of the call that was the last step (NoResult after any other step).
Result(op, status, detail, log, wrote) ==
    [op |-> op, status |-> status, detail |-> detail, log |-> log,
     wrote |-> wrote]

NoResult == Result("none", "None", "none", "none", {})

(* ---------------- mysql_sync.py: sync_sheets_to_mysql ------------------ *)
\* (variant: the test left out)
NoData_Never(all_values) == FALSE

\* if not all_values
NoData(all_values) == Len(all_values) = 0

S2TFails == {"none", "open_sheet", "read_sheet", "save"} \cup RawFails

\* (variant: the record saved whether or not the pass failed)
S2TCommit_Always(table_name, all_values, failed) ==
    save_sync_state(table_name, EmptyStr, get_data_hash(all_values), now,
                    "sheets_to_mysql")

\* try: _sync_to_mysql_raw(...); save_sync_state(...) except: return error.
\* The file after the try block: the record is saved only when nothing
\* before it raised (and the save itself went through).
S2TCommit(table_name, all_values, failed) ==
    IF failed THEN sync_state
    ELSE save_sync_state(table_name, EmptyStr, get_data_hash(all_values),
                         now, "sheets_to_mysql")

sync_sheets_to_mysql(table_name, fail, failAt) ==
    LET op == "sync_sheets_to_mysql"
        all_values == get_all_values
    IN
    IF fail \in {"open_sheet", "read_sheet"}
    THEN /\ result' = Result(op, "error", "message", "error_reading", {})
         /\ UNCHANGED <<sheet, db, sync_state>>
    ELSE IF NoData(all_values)
    THEN /\ result' = Result(op, "ignored", "reason:no_data", "no_data", {})
         /\ UNCHANGED <<sheet, db, sync_state>>
    ELSE
    LET col_names == ColNames(MaxLen(all_values))
        raw == sync_to_mysql_raw(db, col_names, all_values, fail, failAt)
        tw == IF raw.wrote THEN {"table"} ELSE {}
    IN  /\ db' = raw.db
        /\ sheet' = sheet
        /\ sync_state' = S2TCommit(table_name, all_values,
                                   raw.raised \/ fail = "save")
        /\ result' = IF raw.raised \/ fail = "save"
                     THEN Result(op, "error", "message",
                                 S2TLog(raw.warned, "error_syncing"), tw)
                     ELSE Result(op, "success", "rows",
                                 S2TLog(raw.warned, "complete"),
                                 tw \cup {"state"})

(* ------------------- main.py: receive_sheet_update --------------------- *)
WebhookTable == "Sync7"
WebhookFails == {"none", "open_sheet", "read_sheet"} \cup RawFails

receive_sheet_update(fail, failAt) ==
    LET op == "receive_sheet_update"
        all_values == get_all_values
    IN
    IF fail \in {"open_sheet", "read_sheet"}
    THEN /\ result' = Result(op, "error", "message", "sync_error", {})
         /\ UNCHANGED <<sheet, db, sync_state>>
    ELSE IF NoData(all_values)
    THEN /\ result' = Result(op, "ignored", "none", "ignored", {})
         /\ UNCHANGED <<sheet, db, sync_state>>
    ELSE
    LET col_names == ColNames(MaxLen(all_values))
        raw == sync_to_mysql_raw(db, col_names, all_values, fail, failAt)
        tw == IF raw.wrote THEN {"table"} ELSE {}
    IN  /\ db' = raw.db
        /\ UNCHANGED <<sheet, sync_state>>
        /\ result' = IF raw.raised
                     THEN Result(op, "error", "message",
                                 S2TLog(raw.warned, "sync_error"), tw)
                     ELSE Result(op, "success", "none",
                                 S2TLog(raw.warned, "complete"), tw)

(* ---------------- sheets_sync.py: sync_mysql_to_sheets ----------------- *)
T2SFails == {"none", "has_table", "select", "load", "open_sheet",
             "read_sheet", "clear", "update", "save"}

\* (variant: ORDER BY `id` DESC)
RECURSIVE OrderById_Desc(_)
OrderById_Desc(ids) ==
    IF ids = {} THEN <<>>
    ELSE LET m == CHOOSE i \in ids : \A j \in ids : i >= j
         IN  <<m>> \o OrderById_Desc(ids \ {m})

\* SELECT * ... ORDER BY `id` ASC: the ids in ascending order
RECURSIVE OrderById(_)
OrderById(ids) ==
    IF ids = {} THEN <<>>
    ELSE LET m == CHOOSE i \in ids : \A j \in ids : i <= j
         IN  <<m>> \o OrderById(ids \ {m})

\* letter_columns = [col for col in columns if col != "id"]
LetterColumns(d) == SelectSeq(d.cols, LAMBDA c : c # "id")

\* (variant: str(value) without the test for None)
CellString_StrOnly(value) == IF value = Null THEN "None" ELSE value[1]

\* "" if value is None else str(value)
CellString(value) == IF value = Null THEN "" ELSE value[1]

\* sheet_data: one list per row, one string per letter column
SheetData(d) ==
    LET ids == OrderById(DOMAIN d.rows)
        letter_columns == LetterColumns(d)
    IN  [r \in 1..Len(ids) |->
            [j \in 1..Len(letter_columns) |->
                CellString(d.rows[ids[r]][letter_columns[j]])]]

\* (variant: the window closed with <= instead of <)
RecentOpposite_Inclusive(last_direction, time_since_last_sync) ==
    last_direction = "sheets_to_mysql" /\ time_since_last_sync <= GuardWindow

\* last_state.get("direction") == "sheets_to_mysql"
\*     and time_since_last_sync < 5
RecentOpposite(last_direction, time_since_last_sync) ==
    last_direction = "sheets_to_mysql" /\ time_since_last_sync < GuardWindow

\* (variant: a stored "" taken for a match)
NoChanges_SentinelMatches(last_db_hash, current_db_hash) ==
    last_db_hash = current_db_hash \/ last_db_hash = EmptyStr

\* (variant: the stored digest compared with a digest of the digest)
NoChanges_Rehashed(last_db_hash, current_db_hash) ==
    last_db_hash = get_data_hash(current_db_hash)

\* last_state.get("db_hash") == current_db_hash
NoChanges(last_db_hash, current_db_hash) == last_db_hash = current_db_hash

sync_mysql_to_sheets(table_name, fail) ==
    LET op == "sync_mysql_to_sheets"
        Return(status, log, wrote) ==
            result' = Result(op, status, "none", log, wrote)
    IN
    IF fail = "has_table"
    THEN /\ Return("raised", "raised_has_table", {})
         /\ UNCHANGED <<sheet, db, sync_state>>
    ELSE IF ~db.exists
    THEN /\ Return("None", "no_table", {})
         /\ UNCHANGED <<sheet, db, sync_state>>
    ELSE IF fail = "select"
    THEN /\ Return("None", "error_reading", {})
         /\ UNCHANGED <<sheet, db, sync_state>>
    ELSE IF DOMAIN db.rows = {}
    THEN /\ Return("None", "no_data", {})
         /\ UNCHANGED <<sheet, db, sync_state>>
    ELSE
    LET sheet_data == SheetData(db)
        current_db_hash == get_data_hash(sheet_data)
    IN
    IF fail = "load"
    THEN /\ Return("raised", "raised_load", {})
         /\ UNCHANGED <<sheet, db, sync_state>>
    ELSE
    LET state == load_sync_state
        current_time == now
        last_sync_time == LastField(state, table_name, "last_sync", 0)
        time_since_last_sync == current_time - last_sync_time
    IN
    IF RecentOpposite(LastField(state, table_name, "direction", "None"),
                      time_since_last_sync)
    THEN /\ Return("None", "skipped_recent", {})
         /\ UNCHANGED <<sheet, db, sync_state>>
    ELSE IF NoChanges(LastField(state, table_name, "db_hash", None),
                      current_db_hash)
    THEN /\ Return("None", "no_changes", {})
         /\ UNCHANGED <<sheet, db, sync_state>>
    ELSE IF fail = "open_sheet"
    THEN /\ Return("None", "error_opening", {})
         /\ UNCHANGED <<sheet, db, sync_state>>
    ELSE IF fail = "read_sheet"
    THEN /\ Return("raised", "raised_read", {})
         /\ UNCHANGED <<sheet, db, sync_state>>
    ELSE IF fail = "clear"
    THEN /\ Return("None", "error_updating", {})
         /\ UNCHANGED <<sheet, db, sync_state>>
    ELSE IF fail = "update"
    THEN /\ Return("None", "error_updating", {"sheet_clear"})
         /\ sheet' = Cleared
         /\ UNCHANGED <<db, sync_state>>
    ELSE IF fail = "save"
    THEN /\ Return("None", "error_updating", {"sheet_clear", "sheet_update"})
         /\ sheet' = Updated(sheet_data)
         /\ UNCHANGED <<db, sync_state>>
    ELSE /\ Return("None", "complete",
                   {"sheet_clear", "sheet_update", "state"})
         /\ sheet' = Updated(sheet_data)
         /\ sync_state' = save_sync_state(table_name, current_db_hash,
                              get_data_hash(sheet_data), current_time,
                              "mysql_to_sheets")
         /\ db' = db

(* ------------------------------ drivers -------------------------------- *)
\* no get_column_letter call under observation
NoCall == [copy |-> "none", arg |-> 0, n |-> 0, result |-> "", pc |-> "idle"]

\* A record another table's sync left in sync_state.json.
OtherRecord == [db_hash |-> EmptyStr, sheet_hash |-> get_data_hash(<<>>),
                last_sync |-> 0, direction |-> "sheets_to_mysql"]

Init ==
    /\ sheet = <<>>
    /\ db = NoTable
    /\ sync_state = [t \in {OtherTable} |-> OtherRecord]
    /\ now = 0
    /\ result = NoResult
    /\ echo = FALSE
    /\ labeler = NoCall
    /\ inflight = {}

\* A user edits the worksheet.
EditSheet(grids) ==
    /\ \E g \in grids : sheet' = g
    /\ result' = NoResult
    /\ UNCHANGED <<db, sync_state, now, echo, calls>>

\* d seconds of wall-clock time pass.
Tick(d) ==
    /\ now + d <= MaxTime
    /\ now' = now + d
    /\ result' = NoResult
    /\ UNCHANGED <<sheet, db, sync_state, echo, calls>>

\* The ALTER statement that raises when the failure is in adding a column.
FailAts(fail) ==
    IF fail = "add_column" THEN 1..MaxLen(get_all_values) ELSE {0}

\* Manual call of sync_sheets_to_mysql.
CallSheetsToMysql(fails) ==
    /\ \E t \in TableNames, fail \in fails :
          \E failAt \in FailAts(fail) : sync_sheets_to_mysql(t, fail, failAt)
    /\ UNCHANGED <<now, echo, calls>>

\* POST /webhooks/sheets
Webhook(fails) ==
    /\ \E fail \in fails :
          \E failAt \in FailAts(fail) : receive_sheet_update(fail, failAt)
    /\ UNCHANGED <<now, echo, calls>>

\* Manual or timer call of sync_mysql_to_sheets.
CallMysqlToSheets(fails) ==
    /\ \E t \in TableNames, fail \in fails : sync_mysql_to_sheets(t, fail)
    /\ UNCHANGED <<now, echo, calls>>

\* The engine on small worksheets, second by second, no call failing:
\* the guard window and the no-op short-circuit.
Next ==
    \/ EditSheet(SmallGrids)
    \/ Tick(1)
    \/ CallSheetsToMysql({"none"})
    \/ Webhook({"none"})
    \/ CallMysqlToSheets({"none"})

Spec == Init /\ [][Next]_vars

\* The two sync entry points on small worksheets, every external call
\* able to fail.
NextFail ==
    \/ EditSheet(SmallGrids)
    \/ Tick(GuardWindow)
    \/ CallSheetsToMysql(S2TFails)
    \/ CallMysqlToSheets(T2SFails)

SpecFail == Init /\ [][NextFail]_vars

\* The engine on ragged worksheets of up to MaxRows x MaxCols, a guard
\* window passing at a time, no call failing: the reconciliation of data.
NextData ==
    \/ EditSheet(Grids)
    \/ Tick(GuardWindow)
    \/ CallSheetsToMysql({"none"})
    \/ Webhook({"none"})
    \/ CallMysqlToSheets({"none"})

SpecData == Init /\ [][NextData]_vars

(* ----------------------- the echo environment -------------------------- *)
\* Every write a table_to_sheet pass makes to the worksheet comes back as a
\* change notification (echo), which triggers sync_sheets_to_mysql; a timer
\* keeps calling sync_mysql_to_sheets; nobody edits after the start.
InitEcho ==
    /\ sheet \in SmallGrids
    /\ db = NoTable
    /\ sync_state = [t \in {OtherTable} |-> OtherRecord]
    /\ now = 0
    /\ result = NoResult
    /\ echo = TRUE
    /\ labeler = NoCall
    /\ inflight = {}

TimerFires ==
    /\ sync_mysql_to_sheets(WebhookTable, "none")
    /\ echo' = (echo \/ "sheet_update" \in result'.wrote)
    /\ now' = now
    /\ UNCHANGED calls

EchoArrives ==
    /\ echo
    /\ sync_sheets_to_mysql(WebhookTable, "none", 0)
    /\ echo' = FALSE
    /\ now' = now
    /\ UNCHANGED calls

\* A second passes.  The engine reads the clock only through
\* current_time - last_sync_time < 5, so once the clock shows MaxTime
\* (more than the window) the epoch moves instead: every stored time stamp
\* goes back a second, which keeps every such comparison as it is.
TickEpoch ==
    /\ IF now < MaxTime
       THEN /\ now' = now + 1
            /\ sync_state' = sync_state
       ELSE /\ now' = now
            /\ sync_state' = [t \in DOMAIN sync_state |->
                                [sync_state[t] EXCEPT !.last_sync =
                                    IF @ > 0 THEN @ - 1 ELSE 0]]
    /\ result' = NoResult
    /\ UNCHANGED <<sheet, db, echo, calls>>

NextEcho ==
    \/ TimerFires
    \/ EchoArrives
    \/ TickEpoch

\* The timer keeps firing, a pending notification is delivered, time
\* passes.
SpecEcho ==
    /\ InitEcho
    /\ [][NextEcho]_vars
    /\ WF_vars(TimerFires)
    /\ WF_vars(EchoArrives)
    /\ WF_vars(TickEpoch)

(* ------------------------- the column labeler -------------------------- *)
\* get_column_letter(arg) is called, in the copy of sync_utils.py or in
\* the copy of main.py, and runs turn by turn of its while loop.
Copies == {"sync_utils", "main"}
Indices == (0 - NegIndex)..MaxIndex

InitLabel ==
    /\ sheet = <<>>
    /\ db = NoTable
    /\ sync_state = [t \in {OtherTable} |-> OtherRecord]
    /\ now = 0
    /\ result = NoResult
    /\ echo = FALSE
    /\ inflight = {}
    /\ \E copy \in Copies, arg \in Indices :
          labeler = [copy |-> copy, arg |-> arg, n |-> arg, result |-> "",
                     pc |-> "loop"]

\* while n > 0: one more turn
LabelerTurn ==
    /\ labeler.pc = "loop"
    /\ labeler.n > 0
    /\ LET s == IF labeler.copy = "main"
                THEN main_get_column_letter_step(labeler.n, labeler.result)
                ELSE get_column_letter_step(labeler.n, labeler.result)
       IN  labeler' = [labeler EXCEPT !.n = s.n, !.result = s.result]
    /\ UNCHANGED <<sheet, db, sync_state, now, result, echo, inflight>>

\* the loop test fails: return result
LabelerReturn ==
    /\ labeler.pc = "loop"
    /\ ~(labeler.n > 0)
    /\ labeler' = [labeler EXCEPT !.pc = "returned"]
    /\ UNCHANGED <<sheet, db, sync_state, now, result, echo, inflight>>

NextLabel ==
    \/ LabelerTurn
    \/ LabelerReturn

\* A running call is not suspended for ever.
SpecLabel == InitLabel /\ [][NextLabel]_vars /\ WF_vars(NextLabel)

(* ------------------------ a table made elsewhere ---------------------- *)
\* A table made outside the engine (by hand, by another tool), its id
\* column AUTO_INCREMENT.
ForeignTable == [exists |-> TRUE, auto_inc |-> TRUE, cols |-> <<"id">>,
                 rows |-> <<>>]

ForeignCreate ==
    /\ ~db.exists
    /\ db' = ForeignTable
    /\ result' = NoResult
    /\ UNCHANGED <<sheet, sync_state, now, echo, calls>>

\* The two sheet_to_table entry points over tables made by the engine or
\* elsewhere, every external call able to fail.
NextStrip ==
    \/ ForeignCreate
    \/ EditSheet(SmallGrids)
    \/ CallSheetsToMysql(S2TFails)
    \/ Webhook(WebhookFails)

SpecStrip == Init /\ [][NextStrip]_vars

(* ------------------- save_sync_state, two processes -------------------- *)
\* Passes for two tables run in two processes (the web application of
\* main.py, a script or the admin application calling the sync
\* functions) and share sync_state.json.  A pass is seen from its call of
\* save_sync_state on: the call loads the file, and later dumps what it
\* loaded with its own key replaced.  One pass at a time per table.
BothTables == {WebhookTable, OtherTable}
Directions == {"sheets_to_mysql", "mysql_to_sheets"}

InitConc ==
    /\ sheet = <<RowCut(1, SmallCols)>>
    /\ db = sync_to_mysql_raw(NoTable, ColNames(MaxLen(sheet)), sheet,
                              "none", 0).db
    /\ sync_state = [t \in {OtherTable} |-> OtherRecord]
    /\ now = 0
    /\ result = NoResult
    /\ echo = FALSE
    /\ labeler = NoCall
    /\ inflight = {}

\* the arguments the two sync functions hand to save_sync_state
SaveArgs(direction) ==
    IF direction = "sheets_to_mysql"
    THEN StateRecord(EmptyStr, get_data_hash(get_all_values), now, direction)
    ELSE StateRecord(get_data_hash(SheetData(db)),
                     get_data_hash(SheetData(db)), now, direction)

\* state = load_sync_state()
SaveLoads ==
    /\ \E t \in BothTables, direction \in Directions :
          /\ \A s \in inflight : s.table # t
          /\ inflight' = inflight \cup
                 {[table |-> t, state |-> load_sync_state,
                   record |-> SaveArgs(direction)]}
    /\ UNCHANGED <<sheet, db, sync_state, now, result, echo, labeler>>

\* state[table_name] = {...}; json.dump(state, f)
SaveDumps ==
    /\ \E s \in inflight :
          /\ sync_state' = Dumped(s.state, s.table, s.record)
          /\ inflight' = inflight \ {s}
    /\ UNCHANGED <<sheet, db, now, result, echo, labeler>>

NextConc ==
    \/ SaveLoads
    \/ SaveDumps
    \/ Tick(GuardWindow)

SpecConc == InitConc /\ [][NextConc]_vars

(* ============================== claims ================================= *)
S2TOps == {"sync_sheets_to_mysql", "receive_sheet_update"}
T2SOp == "sync_mysql_to_sheets"
HasRecord(t) == t \in DOMAIN sync_state
Age(t) == now - sync_state[t].last_sync
TableFingerprint == get_data_hash(SheetData(db))

\* C1: when the record of table t says that a table_to_sheet pass was
\* saved less than 5 seconds ago, a sheet_to_table request
\* (sync_sheets_to_mysql or the webhook handler) is reported as skipped and
\* leaves the table alone; 5 seconds or more after it, the request is not
\* skipped.
C1_EchoGuardSheetToTable ==
    [][\A t \in TableNames :
          (/\ result'.op \in S2TOps
           /\ HasRecord(t)
           /\ sync_state[t].direction = "mysql_to_sheets")
          => IF Age(t) < GuardWindow
             THEN result'.status = "skipped" /\ db' = db
             ELSE result'.status # "skipped"]_vars

\* C2: in the echo environment the system eventually reaches a state from
\* which no trigger writes any more: no table write, no sheet clear or
\* update, no new record.
C2_EchoLoopQuiesces == <>[](result.wrote = {})

\* C3: a table_to_sheet request made while the record of the table says
\* sheets_to_mysql with a time stamp less than 5 seconds old is skipped
\* entirely (sheet not cleared, not written, record unchanged); with a time
\* stamp 5 seconds old or more the guard does not skip.
C3_GuardSkipsTableToSheet ==
    [][\A t \in TableNames :
          (/\ result'.op = T2SOp
           /\ HasRecord(t)
           /\ sync_state[t].direction = "sheets_to_mysql")
          => IF Age(t) < GuardWindow
             THEN /\ result'.log = "skipped_recent"
                  /\ result'.wrote = {}
                  /\ sheet' = sheet
                  /\ sync_state' = sync_state
             ELSE result'.log # "skipped_recent"]_vars

C3_Witness ==
    /\ result.op = T2SOp
    /\ result.log = "skipped_recent"
    /\ HasRecord(WebhookTable)
    /\ sync_state[WebhookTable].direction = "sheets_to_mysql"
    /\ Age(WebhookTable) < GuardWindow
    /\ sheet # SheetData(db)

\* C4: a table_to_sheet request made while the fingerprint of the table's
\* content equals the stored db_hash writes nothing (no clear, no update,
\* no record); and a completed table_to_sheet pass stores the fingerprint
\* of the table, so that a second pass with no table change is a no-op.
C4_NoOpShortCircuit ==
    /\ [][\A t \in TableNames :
             (/\ result'.op = T2SOp
              /\ db.exists
              /\ DOMAIN db.rows # {}
              /\ HasRecord(t)
              /\ sync_state[t].db_hash = TableFingerprint)
             => /\ result'.wrote = {}
                /\ sheet' = sheet
                /\ sync_state' = sync_state]_vars
    /\ [](\A t \in TableNames :
             (result.op = T2SOp /\ result.log = "complete")
             => (HasRecord(t) /\ sync_state[t].db_hash = TableFingerprint))

C4_Witness ==
    /\ result.op = T2SOp
    /\ result.log = "no_changes"
    /\ sync_state[WebhookTable].db_hash = TableFingerprint
    /\ sheet # SheetData(db)

Succeeded(r) == r.op \in S2TOps /\ r.status = "success"
Rectangular(g) == \A i \in DOMAIN g : Len(g[i]) = MaxLen(g)
Labels(w) == {get_column_letter(k) : k \in 1..w}
\* the position of the worksheet column that table column c stands for
ColumnIndex(c) == CHOOSE k \in 1..(MaxCols + 1) : get_column_letter(k) = c
\* what the claim wants in the table for cell k of grid row i
WantedCell(g, i, k) ==
    IF k <= Len(g[i]) /\ g[i][k] # "" THEN Text(g[i][k]) ELSE Null
\* the table is what a reconciliation from grid g leaves
ReconciledFrom(g) ==
    LET r == sync_to_mysql_raw(db, ColNames(MaxLen(g)), g, "none", 0)
    IN  ~r.raised /\ r.db = db

\* C5: after a successful sheet_to_table pass over grid G every row i of
\* 1..len(G) has every letter column of the table equal to the cell of G
\* it stands for, NULL where the cell is empty or absent, the columns
\* beyond the width of G included.
C5_FullReplacePerRow ==
    Succeeded(result) =>
        \A i \in 1..Len(sheet) :
            /\ i \in DOMAIN db.rows
            /\ \A c \in Range(LetterColumns(db)) :
                  db.rows[i][c] = WantedCell(sheet, i, ColumnIndex(c))

\* C6: after a successful sheet_to_table pass over a grid of N >= 1 rows
\* the ids of the table are exactly 1..N, and the delete step of a pass
\* over the present sheet removes the ids above N and no other.
C6_RowSetAfterPass ==
    /\ Succeeded(result) => DOMAIN db.rows = 1..Len(sheet)
    /\ db.exists =>
          DOMAIN DeleteRowsAbove(db, Len(sheet)).rows =
              (DOMAIN db.rows) \cap (1..Len(sheet))

\* a pass over one row that follows a recorded pass over two rows
C6_Witness ==
    /\ result.op = "receive_sheet_update"
    /\ result.status = "success"
    /\ Len(sheet) = 1
    /\ DOMAIN db.rows = {1}
    /\ HasRecord(WebhookTable)
    /\ sync_state[WebhookTable].direction = "sheets_to_mysql"
    /\ Len(sync_state[WebhookTable].sheet_hash[2]) = 2

\* the step is a completed table_to_sheet pass that starts with the table
\* reconciled from the rectangular sheet by the last recorded pass
RoundTripStep ==
    /\ result'.op = T2SOp
    /\ result'.log = "complete"
    /\ Len(sheet) >= 1
    /\ Rectangular(sheet)
    /\ HasRecord(WebhookTable)
    /\ sync_state[WebhookTable].direction = "sheets_to_mysql"
    /\ sync_state[WebhookTable].sheet_hash = get_data_hash(sheet)
    /\ ReconciledFrom(sheet)

\* C7 (as claimed): whatever the table was before, reconciling it from a
\* rectangular N x M grid and then reconciling the sheet from it gives the
\* grid back.
C7_RoundTrip == [][RoundTripStep => sheet' = sheet]_vars

\* C7 (amended): the grid comes back when the table has no column beyond
\* the M columns of the grid.
C7_RoundTripSameWidth ==
    [][(RoundTripStep /\ Len(LetterColumns(db)) = MaxLen(sheet))
       => sheet' = sheet]_vars

C7_Witness ==
    /\ result.op = T2SOp
    /\ result.log = "complete"
    /\ Len(sheet) = MaxRows
    /\ Rectangular(sheet)
    /\ \E i \in DOMAIN sheet : \E j \in DOMAIN sheet[i] : sheet[i][j] = ""
    /\ \E i \in DOMAIN sheet : \E j \in DOMAIN sheet[i] : sheet[i][j] # ""
    /\ Len(LetterColumns(db)) = MaxLen(sheet)
    /\ ReconciledFrom(sheet)

IsPrefix(a, b) == Len(a) <= Len(b) /\ SubSeq(b, 1, Len(a)) = a

\* C8: no step takes a column away or moves one; a successful
\* sheet_to_table pass over a grid of width W leaves the columns it found
\* plus id and label(1)..label(W), each once.
C8_SchemaGrowth ==
    [][/\ IsPrefix(db.cols, db'.cols)
       /\ Succeeded(result') =>
             /\ Range(db'.cols) =
                    Range(db.cols) \cup {"id"} \cup Labels(MaxLen(sheet))
             /\ Cardinality(Range(db'.cols)) = Len(db'.cols)]_vars

\* a pass over a grid of two columns that follows a recorded pass over one
C8_Witness ==
    /\ result.op = "receive_sheet_update"
    /\ result.status = "success"
    /\ MaxLen(sheet) = 2
    /\ db.cols = <<"id", "A", "B">>
    /\ HasRecord(WebhookTable)
    /\ sync_state[WebhookTable].direction = "sheets_to_mysql"
    /\ MaxLen(sync_state[WebhookTable].sheet_hash[2]) = 1

\* C9: whatever fails, each entry point hands back a structured result:
\* success, skipped or ignored with a reason, or error with a message.
C9_StructuredResult ==
    result.op # "none" =>
        \/ result.status = "success"
        \/ result.status \in {"skipped", "ignored"}
              /\ result.detail = "reason:no_data"
        \/ result.status = "error" /\ result.detail = "message"

Failed(r) ==
    /\ r.op # "none"
    /\ \/ r.status \in {"error", "raised"}
       \/ r.log \in {"error_reading", "error_opening", "error_updating"}

\* C10: a pass that fails leaves the record of every table as it was.
C10_FailureKeepsState == [][Failed(result') => sync_state' = sync_state]_vars

\* a sheet_to_table pass that failed after it had written to the table
C10_Witness ==
    /\ result.op = "sync_sheets_to_mysql"
    /\ result.status = "error"
    /\ "table" \in result.wrote
    /\ db.exists
    /\ DOMAIN db.rows # {}
    /\ ~HasRecord(WebhookTable)

PassOps == S2TOps \cup {T2SOp}

\* C11: a pass that succeeds after it wrote data, in either direction and
\* by whichever driver (manual call, timer, webhook handler), leaves the
\* record of its table with its direction, the present time and its
\* fingerprints: table fingerprint and fingerprint of the written grid for
\* table_to_sheet, fingerprint of the consumed grid and "" for
\* sheet_to_table.
C11_SuccessCommitsState ==
    [][\A t \in TableNames :
          /\ (Succeeded(result') /\ "table" \in result'.wrote)
             => /\ t \in DOMAIN sync_state'
                /\ sync_state'[t] =
                      [db_hash |-> EmptyStr,
                       sheet_hash |-> get_data_hash(sheet),
                       last_sync |-> now,
                       direction |-> "sheets_to_mysql"]
          /\ (result'.op = T2SOp /\ result'.log = "complete")
             => /\ t \in DOMAIN sync_state'
                /\ sync_state'[t] =
                      [db_hash |-> TableFingerprint,
                       sheet_hash |-> get_data_hash(sheet'),
                       last_sync |-> now,
                       direction |-> "mysql_to_sheets"]]_vars

\* C12: a pass that changed its destination (the table for sheet_to_table,
\* the sheet for table_to_sheet) also replaced the record, and a pass that
\* failed left the destination as it was.
C12_CommitAtomicWithWrite ==
    [][result'.op \in PassOps =>
          /\ (db' # db \/ sheet' # sheet) => sync_state' # sync_state
          /\ Failed(result') => (db' = db /\ sheet' = sheet)]_vars

\* the grid holds no cell
Blank(g) == \A i \in DOMAIN g : Len(g[i]) = 0

\* C13: a table_to_sheet pass over a table that exists and has no row, no
\* call failing, leaves the sheet without a cell.
C13_EmptyTableClearsSheet ==
    [][(/\ result'.op = T2SOp
        /\ ~Failed(result')
        /\ db.exists
        /\ DOMAIN db.rows = {})
       => Blank(sheet')]_vars

\* a sheet_to_table request, no call failing, that reads a grid of no row
EmptySheetStep == result'.op \in S2TOps /\ ~Failed(result') /\ Len(sheet) = 0

\* C14 (as claimed): a sheet_to_table pass that reads a grid of no row
\* returns ignored with reason no_data and leaves the table's columns, its
\* rows and the record as they were.
C14_EmptySheetIgnored ==
    [][EmptySheetStep =>
          /\ result'.status = "ignored"
          /\ result'.detail = "reason:no_data"
          /\ db' = db
          /\ sync_state' = sync_state]_vars

\* C14 (amended): the outcome is ignored and nothing changes; the reason
\* no_data comes with it from sync_sheets_to_mysql only.
C14_EmptySheetIgnoredNoChange ==
    [][EmptySheetStep =>
          /\ result'.status = "ignored"
          /\ result'.op = "sync_sheets_to_mysql"
                => result'.detail = "reason:no_data"
          /\ db' = db
          /\ sync_state' = sync_state]_vars

\* an ignored pass over a table that has rows and a record
C14_Witness ==
    /\ result.op \in S2TOps
    /\ result.status = "ignored"
    /\ Len(sheet) = 0
    /\ db.exists
    /\ DOMAIN db.rows # {}
    /\ HasRecord(WebhookTable)

\* a letter for a digit 1..26, nothing for an absent leading digit
Digit(d) == IF d = 0 THEN "" ELSE Letters[d]
\* s is the numeral of n in bijective base 26 (up to three digits)
IsBijective26(n, s) ==
    \E a \in 0..26, b \in 0..26 :
        LET c == n - 676 * a - 26 * b
        IN  /\ c \in 1..26
            /\ a > 0 => b > 0
            /\ s = Digit(a) \o Digit(b) \o Digit(c)
\* the labels the specification lists
ListedLabel(n, s) ==
    /\ n = 1 => s = "A"
    /\ n = 26 => s = "Z"
    /\ n = 27 => s = "AA"
    /\ n = 52 => s = "AZ"
    /\ n = 53 => s = "BA"
    /\ n = 702 => s = "ZZ"
    /\ n = 703 => s = "AAA"
Returned == labeler.pc = "returned"

\* what a call that returned with an argument n >= 1 hands back
LabelerReturnsLabel ==
    (Returned /\ labeler.arg >= 1) =>
        /\ IsBijective26(labeler.arg, labeler.result)
        /\ ListedLabel(labeler.arg, labeler.result)
        /\ \A m \in 1..MaxIndex :
              m # labeler.arg => get_column_letter(m) # labeler.result
        /\ labeler.result = get_column_letter(labeler.arg)
        /\ labeler.result = main_get_column_letter(labeler.arg)

\* C15: for n >= 1 get_column_letter(n) returns, and returns the numeral of
\* n in bijective base 26 (A..Z for 1..26, no zero digit): distinct n give
\* distinct labels, the listed labels come out, and the copy of main.py
\* returns what the copy of sync_utils.py returns.
C15_ColumnLabeler == [](LabelerReturnsLabel) /\ <>Returned

C15_Witness ==
    /\ Returned
    /\ labeler.copy = "main"
    /\ labeler.arg = 703
    /\ labeler.result = "AAA"

\* the id of table d that has exactly r - 1 ids below it
RankedId(d, r) ==
    CHOOSE id \in DOMAIN d.rows :
        Cardinality({j \in DOMAIN d.rows : j < id}) = r - 1
\* the position in the schema of the c-th column that is not id
NonIdPosition(d, c) ==
    CHOOSE p \in DOMAIN d.cols :
        /\ d.cols[p] # "id"
        /\ Cardinality({q \in 1..p : d.cols[q] # "id"}) = c
\* grid g is table d: its rows by ascending id, its columns other than id
\* in schema order, "" for NULL
ShowsTable(g, d) ==
    /\ Len(g) = Cardinality(DOMAIN d.rows)
    /\ \A r \in DOMAIN g :
          /\ Len(g[r]) = Cardinality({p \in DOMAIN d.cols : d.cols[p] # "id"})
          /\ \A c \in DOMAIN g[r] :
                LET value == d.rows[RankedId(d, r)][d.cols[NonIdPosition(d, c)]]
                IN  g[r][c] = IF value = Null THEN "" ELSE value[1]

\* C16: a table_to_sheet pass that is neither skipped (guard window, no
\* change) nor failed leaves the sheet showing the table, row count x
\* column count, whatever the sheet held before.
C16_TableWins ==
    [][(result'.op = T2SOp /\ result'.log = "complete")
       => ShowsTable(sheet', db)]_vars

\* a completed pass that wrote two rows that differ, with an empty and a
\* non-empty cell
C16_Witness ==
    /\ result.op = T2SOp
    /\ result.log = "complete"
    /\ Len(sheet) = MaxRows
    /\ \E r \in DOMAIN sheet : \E c \in DOMAIN sheet[r] : sheet[r][c] = ""
    /\ \E r \in DOMAIN sheet : \E c \in DOMAIN sheet[r] : sheet[r][c] # ""
    /\ sheet[1] # sheet[2]

\* C17: with one pass at a time per table and passes of different tables
\* interleaving, the dump that ends a save_sync_state of table t keeps
\* every record there is (none is deleted) and leaves the record of every
\* other table as it is.
C17_RecordsIndependent ==
    [][\A s \in inflight \ inflight' :
          \A u \in DOMAIN sync_state :
              /\ u \in DOMAIN sync_state'
              /\ u # s.table => sync_state'[u] = sync_state[u]]_vars

\* the pass printed the warning of the id step: the step failed
Warned(r) ==
    r.log \in {"id_warning+complete", "id_warning+error_syncing",
               "id_warning+sync_error"}
\* what the pass over the present sheet makes of the table when no call
\* fails
Unfailed == sync_to_mysql_raw(db, ColNames(MaxLen(sheet)), sheet, "none", 0)

\* C18: a sheet_to_table pass whose id step fails goes on as if the step
\* had not been there: on a grid that reconciles when nothing fails it
\* reports success, with the columns added, the rows above the grid
\* deleted and every grid row upserted, only the id column left as it
\* was; a pass that reports success has its table and every label of the
\* grid as a column, so a failed CREATE TABLE or ADD COLUMN is an error;
\* and stripping a stripped table changes nothing.
C18_BestEffortIdStep ==
    [][/\ (result'.op \in S2TOps /\ Warned(result') /\ ~Unfailed.raised)
          => /\ result'.status = "success"
             /\ db' = [Unfailed.db EXCEPT !.auto_inc = db.auto_inc]
             /\ Labels(MaxLen(sheet)) \subseteq Range(db'.cols)
             /\ DOMAIN db'.rows = 1..Len(sheet)
       /\ Succeeded(result')
          => /\ db'.exists
             /\ Labels(MaxLen(sheet)) \subseteq Range(db'.cols)
       /\ (result'.op \in S2TOps /\ ~db'.exists /\ Len(sheet) > 0)
          => result'.status = "error"
       /\ StripAutoIncrement(StripAutoIncrement(db, "none"), "none")
             = StripAutoIncrement(db, "none")]_vars

\* a pass that succeeded on a table whose id column it could not strip
C18_Witness ==
    /\ result.op = "sync_sheets_to_mysql"
    /\ result.status = "success"
    /\ Warned(result)
    /\ db.auto_inc
    /\ DOMAIN db.rows # {}
    /\ Range(db.cols) = {"id"} \cup Labels(MaxLen(sheet))

\* the record of table t is the one a successful sync_sheets_to_mysql
\* left, 5 seconds old or more
SentinelStored(t) ==
    /\ HasRecord(t)
    /\ sync_state[t].direction = "sheets_to_mysql"
    /\ sync_state[t].db_hash = EmptyStr
    /\ Age(t) >= GuardWindow

\* C19: the first table_to_sheet pass that runs 5 seconds or more after a
\* successful sheet_to_table pass, on a table that has rows, is not a
\* no-op: it clears the sheet and writes the whole table, also when the
\* sheet already shows the table.
C19_SentinelDefeatsShortCircuit ==
    [][\A t \in TableNames :
          (/\ result'.op = T2SOp
           /\ SentinelStored(t)
           /\ db.exists
           /\ DOMAIN db.rows # {})
          => /\ result'.log = "complete"
             /\ {"sheet_clear", "sheet_update"} \subseteq result'.wrote
             /\ sheet' = SheetData(db)
             /\ sync_state'[t].direction = "mysql_to_sheets"]_vars

\* a completed pass at or after the end of the window that left the sheet
\* showing a table that is what the sheet reconciles to
C19_Witness ==
    /\ result.op = T2SOp
    /\ result.log = "complete"
    /\ now >= GuardWindow
    /\ sync_state[WebhookTable].last_sync = now
    /\ DOMAIN db.rows # {}
    /\ ReconciledFrom(sheet)

\* the reconciliation of table d from grid g, no call failing
Reconcile(d, g) == sync_to_mysql_raw(d, ColNames(MaxLen(g)), g, "none", 0)

\* from the present table, a second reconciliation from grid g leaves what
\* the first left
SecondRunSame(g) ==
    LET first == Reconcile(db, g)
    IN  ~first.raised =>
            LET second == Reconcile(first.db, g)
            IN  ~second.raised /\ second.db = first.db

\* C20: a sheet_to_table reconciliation run a second time with the same
\* grid leaves the table's columns and every row as the first run left
\* them: for every table reached and every grid, and for every successful
\* pass that directly follows a successful pass.
C20_ResyncIdempotent ==
    /\ [](\A g \in Grids : SecondRunSame(g))
    /\ [][(Succeeded(result) /\ Succeeded(result')) => db' = db]_vars

\* the webhook handler succeeded on the grid that sync_sheets_to_mysql
\* recorded at the same time, over a table that has a column beyond the
\* grid
C20_Witness ==
    /\ result.op = "receive_sheet_update"
    /\ result.status = "success"
    /\ HasRecord(WebhookTable)
    /\ sync_state[WebhookTable].direction = "sheets_to_mysql"
    /\ sync_state[WebhookTable].sheet_hash = get_data_hash(sheet)
    /\ sync_state[WebhookTable].last_sync = now
    /\ Len(LetterColumns(db)) > MaxLen(sheet)
    /\ ReconciledFrom(sheet)

====
